---- MODULE Spec2Model ----
(***************************************************************************)
(* Reconciliation of the Contour and Envoy Services of a Contour parent:   *)
(* internal/operator/controller/contour/service.go.                        *)
(*                                                                         *)
(* The Kubernetes API server is the resource store.  A reconciliation pass *)
(* is sequential blocking I/O, so a pass is split exactly at its store     *)
(* calls: the step that issues the Get also runs the local code up to the  *)
(* next store call, and the Create, Update or Delete is a step of its own. *)
(* Passes of distinct parents and out-of-band writers interleave between   *)
(* those steps; a parent runs at most one pass at a time.                  *)
(***************************************************************************)
EXTENDS Naturals, Sequences, FiniteSets, TLC

VARIABLES
    store,      \* the API server: a function from the keys present to objects
    nextRV,     \* the API server's resource version counter
    pass,       \* per parent: the running (or last finished) pass: its
                \* operation, kind and position, the object its get read
                \* (current), the object of its next store call (svc), the
                \* store calls it issued, its return value, and as history
                \* the keys it wrote (wrote), whether no other writer changed
                \* the store since the parent's previous pass (quiet), the
                \* stored object it left behind (after) and the stored object
                \* its update or delete was applied to (target)
    prev,       \* per parent: a summary of the pass before the current one
    dirty,      \* per parent: another writer changed the store since the
                \* parent's last pass finished
    started,    \* number of passes started
    extOps,     \* number of out-of-band writes
    sched,      \* how the passes are driven: a bounded number of passes
                \* ("bounded"), the passes of a create race ("race") or a
                \* control loop that re-invokes a parent's EnsureExists for
                \* ever while the store fails a bounded number of times
                \* ("live"), and the number of those failures so far
    built       \* the last two desired objects built, each with the parent
                \* and kind it was built for

vars == <<store, nextRV, pass, prev, dirty, started, extOps, sched, built>>

----------------------------------------------------------------------------
(* Bounds of the model. *)

MaxPasses == 2
MaxExt == 2
MaxRacePasses == 4
MaxFaults == 2

----------------------------------------------------------------------------
(* Constants of the program. *)

contourSvcName == "contour"
envoySvcName == "envoy"
awsLbBackendProtoAnnotation ==
    "service.beta.kubernetes.io/aws-load-balancer-backend-protocol"
OwningContourNameLabel == "contour.operator.projectcontour.io/owning-contour-name"
OwningContourNsLabel == "contour.operator.projectcontour.io/owning-contour-namespace"

Kinds == {contourSvcName, envoySvcName}

(* The parents: two Contours of one namespace that select the same child   *)
(* namespace (contour.Spec.Namespace.Name), the documented limitation.     *)
Contours ==
    { [name |-> "a", namespace |-> "ops", specNs |-> "projectcontour"],
      [name |-> "b", namespace |-> "ops", specNs |-> "projectcontour"] }

Namespaces == {"projectcontour"}

Keys == Namespaces \X Kinds

Nil == [nil |-> TRUE]

NoMap == [k \in {} |-> ""]

MapOf(k1, v1, k2, v2) == [k \in {k1, k2} |-> IF k = k1 THEN v1 ELSE v2]

MapOf1(k1, v1) == [k \in {k1} |-> v1]

----------------------------------------------------------------------------
(* Desired State Generator. *)

(* A variant that names the resource after the parent. *)
DesiredContourService_ParentName(contour) ==
    [ namespace |-> contour.specNs,
      name |-> contour.name,
      labels |-> MapOf(OwningContourNameLabel, contour.name,
                       OwningContourNsLabel, contour.namespace),
      annotations |-> NoMap,
      ports |-> << [name |-> "xds", port |-> "xdsPort", protocol |-> "TCP",
                    targetPort |-> "xdsPort"] >>,
      selector |-> "contourDeploymentPodSelector",
      type |-> "ClusterIP",
      sessionAffinity |-> "None",
      externalTrafficPolicy |-> "",
      clusterIP |-> "",
      resourceVersion |-> 0 ]

DesiredContourService(contour) ==
    [ namespace |-> contour.specNs,
      name |-> contourSvcName,
      labels |-> MapOf(OwningContourNameLabel, contour.name,
                       OwningContourNsLabel, contour.namespace),
      annotations |-> NoMap,
      ports |-> << [name |-> "xds", port |-> "xdsPort", protocol |-> "TCP",
                    targetPort |-> "xdsPort"] >>,
      selector |-> "contourDeploymentPodSelector",
      type |-> "ClusterIP",
      sessionAffinity |-> "None",
      externalTrafficPolicy |-> "",
      clusterIP |-> "",
      resourceVersion |-> 0 ]

(* A variant that leaves out the owning-namespace label. *)
DesiredEnvoyService_NoNsLabel(contour) ==
    [ namespace |-> contour.specNs,
      name |-> envoySvcName,
      labels |-> MapOf1(OwningContourNameLabel, contour.name),
      annotations |-> MapOf1(awsLbBackendProtoAnnotation, "tcp"),
      ports |-> << [name |-> "http", port |-> "httpPort", protocol |-> "TCP",
                    targetPort |-> "httpPort"],
                   [name |-> "https", port |-> "httpsPort", protocol |-> "TCP",
                    targetPort |-> "httpsPort"] >>,
      selector |-> "envoyDaemonSetPodSelector",
      type |-> "LoadBalancer",
      sessionAffinity |-> "None",
      externalTrafficPolicy |-> "Local",
      clusterIP |-> "",
      resourceVersion |-> 0 ]

DesiredEnvoyService(contour) ==
    [ namespace |-> contour.specNs,
      name |-> envoySvcName,
      labels |-> MapOf(OwningContourNameLabel, contour.name,
                       OwningContourNsLabel, contour.namespace),
      annotations |-> MapOf1(awsLbBackendProtoAnnotation, "tcp"),
      ports |-> << [name |-> "http", port |-> "httpPort", protocol |-> "TCP",
                    targetPort |-> "httpPort"],
                   [name |-> "https", port |-> "httpsPort", protocol |-> "TCP",
                    targetPort |-> "httpsPort"] >>,
      selector |-> "envoyDaemonSetPodSelector",
      type |-> "LoadBalancer",
      sessionAffinity |-> "None",
      externalTrafficPolicy |-> "Local",
      clusterIP |-> "",
      resourceVersion |-> 0 ]

Desired(contour, kind) ==
    IF kind = contourSvcName THEN DesiredContourService(contour)
                             ELSE DesiredEnvoyService(contour)

(* A variant that looks every kind up under the name of the internal one. *)
KeyOf_AlwaysContour(contour, kind) == <<contour.specNs, contourSvcName>>

KeyOf(contour, kind) == <<contour.specNs, kind>>

----------------------------------------------------------------------------
(* Ownership Guard (ownerLabelsExist). *)

ownerLabelsExist(obj, contour) ==
    /\ OwningContourNameLabel \in DOMAIN obj.labels
    /\ OwningContourNsLabel \in DOMAIN obj.labels
    /\ obj.labels[OwningContourNameLabel] = contour.name
    /\ obj.labels[OwningContourNsLabel] = contour.namespace

----------------------------------------------------------------------------
(* Change Detector (package equality). *)

MergeByKey(cur, des) ==
    [k \in (DOMAIN cur) \cup (DOMAIN des) |->
        IF k \in DOMAIN des THEN des[k] ELSE cur[k]]

AnnotationOf(obj, k) ==
    IF k \in DOMAIN obj.annotations THEN <<obj.annotations[k]>> ELSE <<>>

ClusterIPServiceChanged(current, expected) ==
    LET changed == \/ current.ports # expected.ports
                   \/ current.selector # expected.selector
                   \/ current.sessionAffinity # expected.sessionAffinity
    IN  IF changed
        THEN [ svc |-> [current EXCEPT
                          !.ports = expected.ports,
                          !.selector = expected.selector,
                          !.sessionAffinity = expected.sessionAffinity,
                          !.labels = MergeByKey(@, expected.labels),
                          !.annotations = MergeByKey(@, expected.annotations)],
               changed |-> TRUE ]
        ELSE [ svc |-> current, changed |-> FALSE ]

LoadBalancerServiceChanged(current, expected) ==
    LET changed ==
          \/ current.ports # expected.ports
          \/ current.selector # expected.selector
          \/ current.sessionAffinity # expected.sessionAffinity
          \/ current.type # expected.type
          \/ current.externalTrafficPolicy # expected.externalTrafficPolicy
          \/ AnnotationOf(current, awsLbBackendProtoAnnotation)
               # AnnotationOf(expected, awsLbBackendProtoAnnotation)
    IN  IF changed
        THEN [ svc |-> [current EXCEPT
                          !.ports = expected.ports,
                          !.selector = expected.selector,
                          !.sessionAffinity = expected.sessionAffinity,
                          !.type = expected.type,
                          !.externalTrafficPolicy = expected.externalTrafficPolicy,
                          !.labels = MergeByKey(@, expected.labels),
                          !.annotations = MergeByKey(@, expected.annotations)],
               changed |-> TRUE ]
        ELSE [ svc |-> current, changed |-> FALSE ]

(* A variant that compares both kinds as cluster-internal Services. *)
ServiceChanged_AlwaysClusterIP(kind, current, expected) ==
    ClusterIPServiceChanged(current, expected)

(* A variant that compares both kinds as load-balancer Services. *)
ServiceChanged_AlwaysLB(kind, current, expected) ==
    LoadBalancerServiceChanged(current, expected)

ServiceChanged(kind, current, expected) ==
    IF kind = contourSvcName THEN ClusterIPServiceChanged(current, expected)
                             ELSE LoadBalancerServiceChanged(current, expected)

----------------------------------------------------------------------------
(* Errors: a store error and the fmt.Errorf("failed to <op> service        *)
(* <ns>/<name>: %w") layers wrapped around it, outermost first.            *)

StoreErr(cause) == [wraps |-> <<>>, cause |-> cause]

Errorf(op, namespace, name, err) ==
    [err EXCEPT !.wraps =
        <<[op |-> op, namespace |-> namespace, name |-> name]>> \o @]

IsNotFound(err) == err.cause = "NotFound"

----------------------------------------------------------------------------
(* Resource Store: the API server behind r.client.  Every call is one      *)
(* atomic remote call and may fail with an opaque error ("Internal").      *)

ObjKey(obj) == <<obj.namespace, obj.name>>

(* The opaque failures a call may end with.  Under a control loop that     *)
(* runs for ever the store fails at most MaxFaults times.                  *)
Transient ==
    IF sched.mode = "live" /\ sched.faults >= MaxFaults THEN {}
                                                        ELSE {"Internal"}

GetResults(key) ==
    (IF key \in DOMAIN store THEN {"OK"} ELSE {"NotFound"}) \cup Transient

CreateResults(obj) ==
    (IF ObjKey(obj) \in DOMAIN store THEN {"AlreadyExists"} ELSE {"OK"})
        \cup Transient

UpdateResults(obj) ==
    (IF ObjKey(obj) \notin DOMAIN store THEN {"NotFound"}
     ELSE IF store[ObjKey(obj)].resourceVersion # obj.resourceVersion
          THEN {"Conflict"}
          ELSE {"OK"}) \cup Transient

DeleteResults(obj) ==
    (IF ObjKey(obj) \in DOMAIN store THEN {"OK"} ELSE {"NotFound"})
        \cup Transient

StorePut(key, obj) ==
    [k \in (DOMAIN store) \cup {key} |-> IF k = key THEN obj ELSE store[k]]

StoreRemove(key) == [k \in (DOMAIN store) \ {key} |-> store[k]]

(* What the API server persists: it allocates the cluster address of a new *)
(* Service and stamps every write with a fresh resource version.           *)
Created(obj) ==
    [obj EXCEPT !.clusterIP = IF @ = "" THEN "10.0.0.1" ELSE @,
                !.resourceVersion = nextRV]

Updated(obj) == [obj EXCEPT !.resourceVersion = nextRV]

Call(op, key, arg, res) == [op |-> op, key |-> key, arg |-> arg, res |-> res]

----------------------------------------------------------------------------
(* The local code of the four operations between their store calls.        *)

(* A variant that goes on to create after any failed get. *)
ensureOnGetError_CreateAlways(err, desired) ==
    [do |-> "create", svc |-> desired, ret |-> Nil]

(* A variant that does not tell NotFound from the other errors. *)
ensureOnGetError_NoCreate(err, desired) ==
    [do |-> "return", svc |-> Nil,
     ret |-> Errorf("get", desired.namespace, desired.name, err)]

(* ensureContourService / ensureEnvoyService, the error branch of the get. *)
ensureOnGetError(err, desired) ==
    IF IsNotFound(err)
    THEN [do |-> "create", svc |-> desired, ret |-> Nil]
    ELSE [do |-> "return", svc |-> Nil,
          ret |-> Errorf("get", desired.namespace, desired.name, err)]

(* A variant that updates whether or not the change detector saw a change. *)
updateServiceIfNeeded_Always(kind, contour, current, desired) ==
    IF ~ownerLabelsExist(current, contour)
    THEN [do |-> "skip", svc |-> Nil]
    ELSE [do |-> "update", svc |-> current]

(* A variant that sends the desired object instead of the merged one. *)
updateServiceIfNeeded_Desired(kind, contour, current, desired) ==
    IF ~ownerLabelsExist(current, contour)
    THEN [do |-> "skip", svc |-> Nil]
    ELSE LET r == ServiceChanged(kind, current, desired)
         IN  IF r.changed THEN [do |-> "update", svc |-> desired]
                          ELSE [do |-> "unchanged", svc |-> Nil]

(* A variant without the ownership gate. *)
updateServiceIfNeeded_NoGate(kind, contour, current, desired) ==
    LET r == ServiceChanged(kind, current, desired)
    IN  IF r.changed THEN [do |-> "update", svc |-> r.svc]
                     ELSE [do |-> "unchanged", svc |-> Nil]

(* updateContourServiceIfNeeded / updateEnvoyServiceIfNeeded up to the     *)
(* Update call.                                                            *)
updateServiceIfNeeded(kind, contour, current, desired) ==
    IF ~ownerLabelsExist(current, contour)
    THEN [do |-> "skip", svc |-> Nil]
    ELSE LET r == ServiceChanged(kind, current, desired)
         IN  IF r.changed THEN [do |-> "update", svc |-> r.svc]
                          ELSE [do |-> "unchanged", svc |-> Nil]

(* The error of a failed Update: wrapped by updateXServiceIfNeeded and     *)
(* again by ensureXService.                                                *)
ensureOnUpdateError(err, svc, desired) ==
    Errorf("update", desired.namespace, desired.name,
           Errorf("update", svc.namespace, svc.name, err))

(* A variant that takes an already-exists failure for success. *)
createOnError_AlreadyExistsOK(err, svc) ==
    IF err.cause = "AlreadyExists" THEN Nil
    ELSE Errorf("create", svc.namespace, svc.name, err)

(* createService, the error of a failed Create. *)
createOnError(err, svc) == Errorf("create", svc.namespace, svc.name, err)

(* ensureXServiceDeleted, the error branch of the get. *)
deletedOnGetError(err) == IF IsNotFound(err) THEN Nil ELSE err

(* A variant without the ownership gate. *)
deletedAfterGet_NoGate(svc, contour) == "delete"

(* ensureXServiceDeleted, the ownership gate of the delete. *)
deletedAfterGet(svc, contour) ==
    IF ~ownerLabelsExist(svc, contour) THEN "skip" ELSE "delete"

(* A variant that does not tell NotFound from the other errors. *)
deletedOnDeleteError_NoNotFound(err) == err

(* ensureXServiceDeleted, the error branch of the Delete. *)
deletedOnDeleteError(err) == IF IsNotFound(err) THEN Nil ELSE err

----------------------------------------------------------------------------
(* Passes. *)

IdlePass ==
    [op |-> "none", kind |-> "", pc |-> "idle", current |-> Nil, svc |-> Nil,
     calls |-> <<>>, ret |-> Nil, wrote |-> {}, quiet |-> TRUE,
     after |-> Nil, target |-> Nil]

(* What is remembered of a pass once the next one starts: its operation,  *)
(* the results of its store calls and the stored object it left behind.    *)
Summary(p) ==
    [op |-> p.op, kind |-> p.kind,
     results |-> [i \in 1..Len(p.calls) |-> p.calls[i].res],
     after |-> p.after]

StoredAt(st, key) == IF key \in DOMAIN st THEN st[key] ELSE Nil

PassLimit == IF sched.mode = "race" THEN MaxRacePasses ELSE MaxPasses

CanStart(c) ==
    /\ pass[c].pc \in {"idle", "done"}
    /\ sched.mode = "live" \/ started < PassLimit

(* One step of parent c: np is its pass after the step, newStore the store. *)
Step(c, np, newStore) ==
    /\ store' = newStore
    /\ nextRV' = IF newStore # store THEN nextRV + 1 ELSE nextRV
    /\ pass' = [pass EXCEPT ![c] =
                  IF np.pc = "done"
                  THEN [np EXCEPT !.quiet = ~dirty[c],
                                  !.after = StoredAt(newStore, np.calls[1].key)]
                  ELSE np]
    /\ dirty' = [d \in Contours |->
                  IF d = c THEN (IF np.pc = "done" THEN FALSE ELSE dirty[c])
                           ELSE dirty[d] \/ newStore # store]
    /\ sched' = IF sched.mode = "live"
                   /\ np.calls[Len(np.calls)].res = "Internal"
                THEN [sched EXCEPT !.faults = @ + 1]
                ELSE sched
    /\ UNCHANGED <<extOps, built>>

Begin(c, np) ==
    /\ prev' = [prev EXCEPT ![c] = Summary(pass[c])]
    /\ started' = IF sched.mode = "live" THEN started ELSE started + 1
    /\ Step(c, np, store)

Continue(c, np, newStore) ==
    /\ UNCHANGED <<prev, started>>
    /\ Step(c, np, newStore)

(* ensureContourService / ensureEnvoyService through the get and the local *)
(* decision that follows it.                                               *)
ensureService(c, kind) ==
    /\ CanStart(c)
    /\ \E res \in GetResults(KeyOf(c, kind)) :
        LET desired == Desired(c, kind)
            key == KeyOf(c, kind)
            base == [IdlePass EXCEPT !.op = "ensure", !.kind = kind,
                        !.pc = "done",
                        !.calls = <<Call("get", key, Nil, res)>>]
            np == IF res # "OK"
                  THEN LET d == ensureOnGetError(StoreErr(res), desired)
                       IN  IF d.do = "create"
                           THEN [base EXCEPT !.pc = "create", !.svc = d.svc]
                           ELSE [base EXCEPT !.ret = d.ret]
                  ELSE LET current == store[key]
                           d == updateServiceIfNeeded(kind, c, current, desired)
                       IN  IF d.do = "update"
                           THEN [base EXCEPT !.pc = "update",
                                    !.current = current, !.svc = d.svc]
                           ELSE [base EXCEPT !.current = current]
        IN  Begin(c, np)

ensureContourService(c) == ensureService(c, contourSvcName)

ensureEnvoyService(c) == ensureService(c, envoySvcName)

(* createService: r.client.Create(ctx, svc). *)
createService(c) ==
    /\ pass[c].pc = "create"
    /\ \E res \in CreateResults(pass[c].svc) :
        LET svc == pass[c].svc
            key == ObjKey(svc)
            ok == res = "OK"
            np == [pass[c] EXCEPT
                     !.pc = "done",
                     !.calls = Append(@, Call("create", key, svc, res)),
                     !.ret = IF ok THEN Nil
                             ELSE createOnError(StoreErr(res), svc),
                     !.wrote = IF ok THEN @ \cup {key} ELSE @]
        IN  Continue(c, np, IF ok THEN StorePut(key, Created(svc)) ELSE store)

(* updateXServiceIfNeeded: r.client.Update(ctx, svc). *)
updateService(c) ==
    /\ pass[c].pc = "update"
    /\ \E res \in UpdateResults(pass[c].svc) :
        LET svc == pass[c].svc
            key == ObjKey(svc)
            ok == res = "OK"
            np == [pass[c] EXCEPT
                     !.pc = "done",
                     !.calls = Append(@, Call("update", key, svc, res)),
                     !.ret = IF ok THEN Nil
                             ELSE ensureOnUpdateError(StoreErr(res), svc,
                                      Desired(c, pass[c].kind)),
                     !.wrote = IF ok THEN @ \cup {key} ELSE @,
                     !.target = IF ok THEN store[key] ELSE Nil]
        IN  Continue(c, np, IF ok THEN StorePut(key, Updated(svc)) ELSE store)

(* ensureContourServiceDeleted / ensureEnvoyServiceDeleted through the get *)
(* and the ownership gate.                                                 *)
ensureServiceDeleted(c, kind) ==
    /\ CanStart(c)
    /\ \E res \in GetResults(KeyOf(c, kind)) :
        LET key == KeyOf(c, kind)
            base == [IdlePass EXCEPT !.op = "delete", !.kind = kind,
                        !.pc = "done",
                        !.calls = <<Call("get", key, Nil, res)>>]
            np == IF res # "OK"
                  THEN [base EXCEPT !.ret = deletedOnGetError(StoreErr(res))]
                  ELSE LET svc == store[key]
                       IN  IF deletedAfterGet(svc, c) = "delete"
                           THEN [base EXCEPT !.pc = "delete",
                                    !.current = svc, !.svc = svc]
                           ELSE [base EXCEPT !.current = svc]
        IN  Begin(c, np)

ensureContourServiceDeleted(c) == ensureServiceDeleted(c, contourSvcName)

ensureEnvoyServiceDeleted(c) == ensureServiceDeleted(c, envoySvcName)

(* ensureXServiceDeleted: r.client.Delete(ctx, svc), by namespace and name. *)
deleteService(c) ==
    /\ pass[c].pc = "delete"
    /\ \E res \in DeleteResults(pass[c].svc) :
        LET svc == pass[c].svc
            key == ObjKey(svc)
            ok == res = "OK"
            np == [pass[c] EXCEPT
                     !.pc = "done",
                     !.calls = Append(@, Call("delete", key, svc, res)),
                     !.ret = IF ok THEN Nil
                             ELSE deletedOnDeleteError(StoreErr(res)),
                     !.wrote = IF ok THEN @ \cup {key} ELSE @,
                     !.target = IF ok THEN store[key] ELSE Nil]
        IN  Continue(c, np, IF ok THEN StoreRemove(key) ELSE store)

----------------------------------------------------------------------------
(* Out-of-band writers of the store: users and other controllers create,   *)
(* change and delete Services without going through this reconciler.       *)

LabelChoices ==
    { NoMap,
      MapOf1(OwningContourNameLabel, "a"),
      MapOf1(OwningContourNsLabel, "ops"),
      MapOf(OwningContourNameLabel, "a", OwningContourNsLabel, "elsewhere") }
    \cup { DesiredContourService(c).labels : c \in Contours }

Fields ==
    { "ports", "selector", "sessionAffinity", "type", "externalTrafficPolicy",
      "awsAnnotation", "foreign" }

Drift(obj, f) ==
    CASE f = "ports" ->
           [obj EXCEPT !.ports = << [name |-> "metrics", port |-> "metricsPort",
                                      protocol |-> "TCP",
                                      targetPort |-> "metricsPort"] >>]
      [] f = "selector" -> [obj EXCEPT !.selector = "someOtherSelector"]
      [] f = "sessionAffinity" -> [obj EXCEPT !.sessionAffinity = "ClientIP"]
      [] f = "type" -> [obj EXCEPT !.type = "NodePort"]
      [] f = "externalTrafficPolicy" ->
           [obj EXCEPT !.externalTrafficPolicy = "Cluster"]
      [] f = "awsAnnotation" ->
           [obj EXCEPT !.annotations =
               MergeByKey(@, MapOf1(awsLbBackendProtoAnnotation, "http"))]
      [] f = "foreign" ->
           [obj EXCEPT !.labels = MergeByKey(@, MapOf1("app", "x")),
                       !.annotations = MergeByKey(@, MapOf1("note", "y"))]

ExtStep(newStore) ==
    /\ extOps < MaxExt
    /\ extOps' = extOps + 1
    /\ store' = newStore
    /\ nextRV' = nextRV + 1
    /\ dirty' = [d \in Contours |-> TRUE]
    /\ UNCHANGED <<pass, prev, started, sched, built>>

ExtCreate(key, labels) ==
    /\ key \notin DOMAIN store
    /\ LET c == CHOOSE x \in Contours : TRUE
           obj == [Desired(c, key[2]) EXCEPT !.namespace = key[1],
                                             !.labels = labels]
       IN  ExtStep(StorePut(key, Created(obj)))

ExtModify(key, f) ==
    /\ key \in DOMAIN store
    /\ Drift(store[key], f) # store[key]
    /\ ExtStep(StorePut(key, Updated(Drift(store[key], f))))

ExtDelete(key) ==
    /\ key \in DOMAIN store
    /\ ExtStep(StoreRemove(key))

----------------------------------------------------------------------------

Init ==
    /\ store = NoMap
    /\ nextRV = 1
    /\ pass = [c \in Contours |-> IdlePass]
    /\ prev = [c \in Contours |-> Summary(IdlePass)]
    /\ dirty = [c \in Contours |-> FALSE]
    /\ started = 0
    /\ extOps = 0
    /\ sched = [mode |-> "bounded", faults |-> 0]
    /\ built = <<>>

Next ==
    \/ \E c \in Contours : ensureContourService(c)
    \/ \E c \in Contours : ensureEnvoyService(c)
    \/ \E c \in Contours : createService(c)
    \/ \E c \in Contours : updateService(c)
    \/ \E c \in Contours : ensureContourServiceDeleted(c)
    \/ \E c \in Contours : ensureEnvoyServiceDeleted(c)
    \/ \E c \in Contours : deleteService(c)
    \/ \E key \in Keys, labels \in LabelChoices : ExtCreate(key, labels)
    \/ \E key \in Keys, f \in Fields : ExtModify(key, f)
    \/ \E key \in Keys : ExtDelete(key)

Spec == Init /\ [][Next]_vars

----------------------------------------------------------------------------
(* The Desired State Generator on its own: desired objects are built for   *)
(* parents of every name, namespace and selected child namespace, while    *)
(* out-of-band writers change the store between the builds.                *)

Parents ==
    [ name : {"a", "b"}, namespace : {"ops", "dev"},
      specNs : {"projectcontour", "other"} ]

(* DesiredContourService(contour) / DesiredEnvoyService(contour). *)
Build(p, kind) ==
    /\ built' = <<[parent |-> p, kind |-> kind, out |-> Desired(p, kind)]>>
                    \o (IF built = <<>> THEN <<>> ELSE <<built[1]>>)
    /\ UNCHANGED <<store, nextRV, pass, prev, dirty, started, extOps, sched>>

NextDesired ==
    \/ \E p \in Parents : Build(p, contourSvcName)
    \/ \E p \in Parents : Build(p, envoySvcName)
    \/ \E key \in Keys, labels \in LabelChoices : ExtCreate(key, labels)
    \/ \E key \in Keys : ExtDelete(key)

SpecDesired == Init /\ [][NextDesired]_vars

----------------------------------------------------------------------------
(* The control loop of a single parent: it re-invokes EnsureExists for     *)
(* both kinds for ever; no one else writes the store, which fails at most  *)
(* MaxFaults times.  The store starts empty or with one resource, owned or *)
(* not, as an out-of-band writer or an earlier pass may have left it.      *)

Parent == CHOOSE c \in Contours : c.name = "a"

InitialObjects(kind) ==
    LET base(labels) ==
            [Desired(Parent, kind) EXCEPT !.labels = labels,
                                          !.clusterIP = "10.0.0.1",
                                          !.resourceVersion = 1]
    IN  { base(labels) : labels \in LabelChoices }
        \cup { Drift(base(labels), f) : labels \in LabelChoices, f \in Fields }

InitLive ==
    /\ store \in {NoMap} \cup
          { [k \in {KeyOf(Parent, kind)} |-> o] :
                kind \in Kinds, o \in UNION {InitialObjects(x) : x \in Kinds} }
    /\ \A k \in DOMAIN store : store[k] \in InitialObjects(k[2])
    /\ nextRV = 2
    /\ pass = [c \in Contours |-> IdlePass]
    /\ prev = [c \in Contours |-> Summary(IdlePass)]
    /\ dirty = [c \in Contours |-> FALSE]
    /\ started = 0
    /\ extOps = 0
    /\ sched = [mode |-> "live", faults |-> 0]
    /\ built = <<>>

NextLive ==
    \/ ensureContourService(Parent)
    \/ ensureEnvoyService(Parent)
    \/ createService(Parent)
    \/ updateService(Parent)

(* The control loop re-invokes the reconciliation of each kind again and   *)
(* again, and a blocking store call of a running pass returns.             *)
SpecLive ==
    /\ InitLive
    /\ [][NextLive]_vars
    /\ SF_vars(ensureContourService(Parent))
    /\ SF_vars(ensureEnvoyService(Parent))
    /\ WF_vars(createService(Parent))
    /\ WF_vars(updateService(Parent))

----------------------------------------------------------------------------
(* The create race: EnsureExists passes of the two parents, which select   *)
(* the same child namespace, interleave on an initially empty store with   *)
(* no other writer.  Nothing differs from desired, so no pass updates.     *)

InitRace ==
    /\ store = NoMap
    /\ nextRV = 1
    /\ pass = [c \in Contours |-> IdlePass]
    /\ prev = [c \in Contours |-> Summary(IdlePass)]
    /\ dirty = [c \in Contours |-> FALSE]
    /\ started = 0
    /\ extOps = 0
    /\ sched = [mode |-> "race", faults |-> 0]
    /\ built = <<>>

NextRace ==
    \/ \E c \in Contours : ensureContourService(c)
    \/ \E c \in Contours : ensureEnvoyService(c)
    \/ \E c \in Contours : createService(c)

SpecRace == InitRace /\ [][NextRace]_vars

----------------------------------------------------------------------------
(* The same passes and writers on a cluster that already holds, in a       *)
(* namespace no parent selects, Services with the two fixed names and the  *)
(* ownership labels of a parent.                                           *)

OtherKeys == {"other"} \X Kinds

InitFrame ==
    /\ store = [k \in OtherKeys |->
                  [Desired(Parent, k[2]) EXCEPT !.namespace = k[1],
                                                !.clusterIP = "10.0.0.1",
                                                !.resourceVersion = 1]]
    /\ nextRV = 2
    /\ pass = [c \in Contours |-> IdlePass]
    /\ prev = [c \in Contours |-> Summary(IdlePass)]
    /\ dirty = [c \in Contours |-> FALSE]
    /\ started = 0
    /\ extOps = 0
    /\ sched = [mode |-> "bounded", faults |-> 0]
    /\ built = <<>>

SpecFrame == InitFrame /\ [][Next]_vars

----------------------------------------------------------------------------
(* Properties. *)

Done(c) == pass[c].pc = "done"

NumCalls(c, op) ==
    Cardinality({i \in 1..Len(pass[c].calls) : pass[c].calls[i].op = op})

GetResult(c) == pass[c].calls[1].res

Found(c) == pass[c].current # Nil

Owned(c) == ownerLabelsExist(pass[c].current, c)

(* C1. Ownership-gated delete: whenever the object an EnsureDeleted pass   *)
(* of either kind read is not owned by the parent, the pass has ended      *)
(* with no delete call, without writing the store, returning success.      *)
C1_GatedDelete ==
    \A c \in Contours :
        (pass[c].op = "delete" /\ Found(c) /\ ~Owned(c))
            => /\ Done(c)
               /\ NumCalls(c, "delete") = 0
               /\ pass[c].wrote = {}
               /\ pass[c].ret = Nil

(* An EnsureDeleted pass that read a resource labelled for another parent. *)
C1_Witness ==
    \E c \in Contours, d \in Contours :
        /\ d # c
        /\ pass[c].op = "delete" /\ Done(c) /\ Found(c)
        /\ ownerLabelsExist(pass[c].current, d)

(* C2. Ownership-gated update: whenever the object an EnsureExists pass of *)
(* either kind read is not owned by the parent, the pass has ended with    *)
(* the get as its only store call (no create, no update), without writing  *)
(* the store, returning success.                                           *)
C2_GatedUpdate ==
    \A c \in Contours :
        (pass[c].op = "ensure" /\ Found(c) /\ ~Owned(c))
            => /\ Done(c)
               /\ Len(pass[c].calls) = 1
               /\ NumCalls(c, "update") = 0
               /\ NumCalls(c, "create") = 0
               /\ pass[c].wrote = {}
               /\ pass[c].ret = Nil

(* An EnsureExists pass that read a resource without ownership labels      *)
(* whose ports differ from the desired ones.                               *)
C2_Witness ==
    \E c \in Contours :
        /\ pass[c].op = "ensure" /\ Done(c) /\ Found(c)
        /\ OwningContourNameLabel \notin DOMAIN pass[c].current.labels
        /\ pass[c].current.ports # Desired(c, pass[c].kind).ports

(* C4. Creation: when the get of an EnsureExists pass reports NotFound,    *)
(* the pass issues the get and then exactly one create of                  *)
(* desired(parent, kind), no update and no delete, and returns success     *)
(* when the create succeeds.                                               *)
C4_Creation ==
    \A c \in Contours :
        (pass[c].op = "ensure" /\ GetResult(c) = "NotFound")
            => /\ pass[c].pc \in {"create", "done"}
               /\ NumCalls(c, "update") = 0
               /\ NumCalls(c, "delete") = 0
               /\ pass[c].pc = "create" => Len(pass[c].calls) = 1
               /\ Done(c) =>
                    /\ Len(pass[c].calls) = 2
                    /\ pass[c].calls[2].op = "create"
                    /\ pass[c].calls[2].arg = Desired(c, pass[c].kind)
                    /\ pass[c].calls[2].res = "OK" => pass[c].ret = Nil

(* An EnsureExists pass that found nothing and created the resource. *)
C4_Witness ==
    \E c \in Contours :
        /\ pass[c].op = "ensure" /\ Done(c)
        /\ GetResult(c) = "NotFound"
        /\ Len(pass[c].calls) = 2 /\ pass[c].calls[2].res = "OK"
        /\ KeyOf(c, pass[c].kind) \in DOMAIN store

(* C6. Delete idempotence: an EnsureDeleted pass whose get reports         *)
(* NotFound ends in success with no delete call; one whose delete call     *)
(* reports NotFound ends in success too.                                   *)
C6_DeleteIdempotent ==
    \A c \in Contours :
        pass[c].op = "delete" =>
            /\ GetResult(c) = "NotFound" =>
                 Done(c) /\ Len(pass[c].calls) = 1 /\ pass[c].ret = Nil
            /\ (Len(pass[c].calls) = 2 /\ pass[c].calls[2].res = "NotFound")
                 => Done(c) /\ pass[c].ret = Nil

(* An EnsureDeleted pass that read an owned resource and lost the race:    *)
(* its delete call reported NotFound.                                      *)
C6_Witness ==
    \E c \in Contours :
        /\ pass[c].op = "delete" /\ Done(c) /\ Found(c) /\ Owned(c)
        /\ Len(pass[c].calls) = 2
        /\ pass[c].calls[2].op = "delete"
        /\ pass[c].calls[2].res = "NotFound"

(* C3. A resource is removed by a parent's EnsureDeleted only if the       *)
(* stored resource's ownership labels identify that parent at the moment   *)
(* the store executes the delete.  Stated for the case the claim singles   *)
(* out: the resource a delete of parent c removes is never the resource    *)
(* that the EnsureExists pass of another parent d created, labelled for d. *)
C3_NeverRemovesAnothers ==
    \A c \in Contours, d \in Contours :
        (/\ d # c
         /\ pass[c].op = "delete" /\ pass[c].target # Nil
         /\ pass[d].op = "ensure" /\ Done(d)
         /\ Len(pass[d].calls) = 2
         /\ pass[d].calls[2].op = "create" /\ pass[d].calls[2].res = "OK")
            => ~(/\ pass[c].target = pass[d].after
                 /\ ownerLabelsExist(pass[c].target, d)
                 /\ ~ownerLabelsExist(pass[c].target, c))

NoStoreFailure(c) ==
    \A i \in 1..Len(pass[c].calls) : pass[c].calls[i].res \in {"OK", "NotFound"}

CreatedBefore(c) ==
    /\ prev[c].op = "ensure"
    /\ prev[c].kind = pass[c].kind
    /\ prev[c].results = <<"NotFound", "OK">>

(* C5. Idempotence: when an EnsureExists pass that started from Absent and *)
(* created the resource is followed by a second EnsureExists pass of the   *)
(* same parent and kind, with no other writer in between and no store      *)
(* failure, the second pass issues the get only (no create, no update) and *)
(* leaves the store as the first pass left it.                             *)
C5_Idempotent ==
    \A c \in Contours :
        (/\ pass[c].op = "ensure"
         /\ CreatedBefore(c)
         /\ IF Done(c) THEN pass[c].quiet ELSE ~dirty[c]
         /\ NoStoreFailure(c))
            => /\ Done(c)
               /\ Len(pass[c].calls) = 1
               /\ GetResult(c) = "OK"
               /\ NumCalls(c, "create") = 0
               /\ NumCalls(c, "update") = 0
               /\ pass[c].wrote = {}
               /\ pass[c].after = prev[c].after

(* The second of two undisturbed EnsureExists passes has ended. *)
C5_Witness ==
    \E c \in Contours :
        /\ pass[c].op = "ensure" /\ Done(c) /\ CreatedBefore(c)
        /\ pass[c].quiet /\ NoStoreFailure(c)

(* C7. Ownership invariant: the argument of every create call carries both *)
(* ownership labels with the name and namespace of the parent whose pass   *)
(* issued it, so it is owned by that parent and by no other; its name is   *)
(* the constant of its kind and its namespace the parent's selected child  *)
(* namespace; and the resource the store holds once the create has         *)
(* succeeded has these labels, name and namespace.                         *)
C7_Ownership ==
    \A c \in Contours :
        \A i \in 1..Len(pass[c].calls) :
            pass[c].calls[i].op = "create" =>
                LET o == pass[c].calls[i].arg
                IN  /\ OwningContourNameLabel \in DOMAIN o.labels
                    /\ OwningContourNsLabel \in DOMAIN o.labels
                    /\ o.labels[OwningContourNameLabel] = c.name
                    /\ o.labels[OwningContourNsLabel] = c.namespace
                    /\ \A d \in Contours : ownerLabelsExist(o, d) <=> d = c
                    /\ o.name = pass[c].kind
                    /\ o.name \in {contourSvcName, envoySvcName}
                    /\ o.namespace = c.specNs
                    /\ (Done(c) /\ pass[c].calls[i].res = "OK") =>
                         /\ pass[c].after # Nil
                         /\ pass[c].after.labels = o.labels
                         /\ pass[c].after.name = o.name
                         /\ pass[c].after.namespace = o.namespace

(* Both kinds have been created, by different parents. *)
C7_Witness ==
    \E c \in Contours, d \in Contours :
        /\ c # d
        /\ Done(c) /\ pass[c].kind = contourSvcName
        /\ Len(pass[c].calls) = 2 /\ pass[c].calls[2].op = "create"
        /\ pass[c].calls[2].res = "OK"
        /\ Done(d) /\ pass[d].kind = envoySvcName
        /\ Len(pass[d].calls) = 2 /\ pass[d].calls[2].op = "create"
        /\ pass[d].calls[2].res = "OK"

(* The managed fields of a kind all equal the desired ones. *)
ManagedEqual(kind, o, d) ==
    /\ o.ports = d.ports
    /\ o.selector = d.selector
    /\ o.sessionAffinity = d.sessionAffinity
    /\ kind = envoySvcName =>
         /\ o.type = d.type
         /\ o.externalTrafficPolicy = d.externalTrafficPolicy
         /\ awsLbBackendProtoAnnotation \in DOMAIN o.annotations
         /\ o.annotations[awsLbBackendProtoAnnotation]
              = d.annotations[awsLbBackendProtoAnnotation]

(* C8. No-op on exact match: when the object an EnsureExists pass read is  *)
(* owned and its managed fields all equal the desired ones, the change     *)
(* detector returns the object unmodified with changed = false, and the    *)
(* pass has ended with the get as its only store call, without writing the *)
(* store, returning success.                                               *)
C8_NoOpOnMatch ==
    \A c \in Contours :
        (/\ pass[c].op = "ensure" /\ Found(c) /\ Owned(c)
         /\ ManagedEqual(pass[c].kind, pass[c].current, Desired(c, pass[c].kind)))
            => /\ ServiceChanged(pass[c].kind, pass[c].current,
                                 Desired(c, pass[c].kind))
                    = [svc |-> pass[c].current, changed |-> FALSE]
               /\ Done(c)
               /\ Len(pass[c].calls) = 1
               /\ NumCalls(c, "update") = 0
               /\ pass[c].wrote = {}
               /\ pass[c].ret = Nil

(* An owned internal resource with matching managed fields, a foreign      *)
(* label, a foreign annotation and an exposure type other than desired.    *)
C8_Witness ==
    \E c \in Contours :
        /\ pass[c].op = "ensure" /\ Done(c) /\ Found(c) /\ Owned(c)
        /\ pass[c].kind = contourSvcName
        /\ ManagedEqual(pass[c].kind, pass[c].current, Desired(c, pass[c].kind))
        /\ "app" \in DOMAIN pass[c].current.labels
        /\ "note" \in DOMAIN pass[c].current.annotations
        /\ pass[c].current.type # Desired(c, pass[c].kind).type

(* Every field outside the managed subset of the kind equals cur's; the    *)
(* resource version is compared only when withRV.                          *)
UnmanagedKept(kind, o, cur, withRV) ==
    /\ o.name = cur.name
    /\ o.namespace = cur.namespace
    /\ o.labels = cur.labels
    /\ o.clusterIP = cur.clusterIP
    /\ withRV => o.resourceVersion = cur.resourceVersion
    /\ IF kind = contourSvcName
       THEN /\ o.type = cur.type
            /\ o.externalTrafficPolicy = cur.externalTrafficPolicy
            /\ o.annotations = cur.annotations
       ELSE /\ DOMAIN o.annotations \ {awsLbBackendProtoAnnotation}
                 = DOMAIN cur.annotations \ {awsLbBackendProtoAnnotation}
            /\ \A k \in DOMAIN cur.annotations \ {awsLbBackendProtoAnnotation} :
                 o.annotations[k] = cur.annotations[k]

MergedOK(c, o, withRV) ==
    /\ o # Nil
    /\ ManagedEqual(pass[c].kind, o, Desired(c, pass[c].kind))
    /\ UnmanagedKept(pass[c].kind, o, pass[c].current, withRV)

NonDestructiveMerge(c, storedWithRV) ==
    (/\ pass[c].op = "ensure" /\ Found(c) /\ Owned(c)
     /\ ~ManagedEqual(pass[c].kind, pass[c].current, Desired(c, pass[c].kind)))
        => /\ pass[c].pc \in {"update", "done"}
           /\ pass[c].pc = "update" =>
                Len(pass[c].calls) = 1 /\ MergedOK(c, pass[c].svc, TRUE)
           /\ Done(c) =>
                /\ Len(pass[c].calls) = 2
                /\ pass[c].calls[2].op = "update"
                /\ MergedOK(c, pass[c].calls[2].arg, TRUE)
                /\ pass[c].calls[2].res = "OK" =>
                     MergedOK(c, pass[c].after, storedWithRV)

(* C9 as stated. Non-destructive merge: an EnsureExists pass that read an  *)
(* owned resource with a managed field differing from desired issues       *)
(* exactly one update call whose argument has every managed field equal to *)
(* desired and every other field, the resource version included, equal to  *)
(* the value read; after a successful update the stored resource satisfies *)
(* the same two conditions.                                                *)
C9_MergeStoredKeepsVersion == \A c \in Contours : NonDestructiveMerge(c, TRUE)

(* C9 as amended: ... after a successful update the stored resource has    *)
(* every managed field equal to desired and every other field except the   *)
(* resource version, which the store advances on the write, equal to the   *)
(* value read.                                                             *)
C9_Merge == \A c \in Contours : NonDestructiveMerge(c, FALSE)

(* An owned external resource with an allocated address and a foreign      *)
(* label whose ports differed has been updated.                            *)
C9_Witness ==
    \E c \in Contours :
        /\ pass[c].op = "ensure" /\ Done(c) /\ Found(c) /\ Owned(c)
        /\ pass[c].kind = envoySvcName
        /\ pass[c].current.ports # Desired(c, pass[c].kind).ports
        /\ pass[c].current.clusterIP # ""
        /\ "app" \in DOMAIN pass[c].current.labels
        /\ Len(pass[c].calls) = 2 /\ pass[c].calls[2].res = "OK"
        /\ pass[c].after # Nil /\ pass[c].after.clusterIP = pass[c].current.clusterIP

(* C10. Every error a pass returns is wrapped with the namespace and name  *)
(* of the resource and the operation of the store call that failed.        *)
C10_ErrorsWrapped ==
    \A c \in Contours :
        (Done(c) /\ pass[c].ret # Nil) =>
            LET failed == pass[c].calls[Len(pass[c].calls)]
            IN  /\ Len(pass[c].ret.wraps) >= 1
                /\ pass[c].ret.wraps[1].op = failed.op
                /\ pass[c].ret.wraps[1].namespace = failed.key[1]
                /\ pass[c].ret.wraps[1].name = failed.key[2]

(* C11. Abort on store failure: when a get, create or update of an         *)
(* EnsureExists pass fails with an error other than NotFound, the pass has *)
(* ended returning an error, the failing call is its last store call, no   *)
(* call was issued twice, the pass wrote nothing, and the step of the      *)
(* failing call left the store as it was.                                  *)
Failed(call) == call.res \notin {"OK", "NotFound"}

AbortedOnFailure(c) ==
    \A i \in 1..Len(pass[c].calls) :
        Failed(pass[c].calls[i]) =>
            /\ Done(c)
            /\ pass[c].ret # Nil
            /\ pass[c].ret.cause = pass[c].calls[i].res
            /\ i = Len(pass[c].calls)
            /\ \A j \in 1..Len(pass[c].calls) :
                  j # i => pass[c].calls[j].op # pass[c].calls[i].op
            /\ pass[c].wrote = {}

FailingCallKeepsStore(c) ==
    (/\ pass'[c] # pass[c]
     /\ pass'[c].op = "ensure"
     /\ Failed(pass'[c].calls[Len(pass'[c].calls)])) => store' = store

C11_AbortOnFailure ==
    /\ [](\A c \in Contours : pass[c].op = "ensure" => AbortedOnFailure(c))
    /\ [][\A c \in Contours : FailingCallKeepsStore(c)]_vars

(* An EnsureExists pass whose second store call, a create or an update,    *)
(* failed.                                                                 *)
C11_Witness ==
    \E c \in Contours :
        /\ pass[c].op = "ensure" /\ Done(c)
        /\ Len(pass[c].calls) = 2
        /\ Failed(pass[c].calls[2])
        /\ pass[c].after # Nil

(* C12. Desired-state purity: every build returns an object; two builds    *)
(* for parents equal in name, namespace and selected child namespace       *)
(* return equal objects whatever the store held and whatever was built     *)
(* before; builds of one kind for different parents differ at most in the  *)
(* resource namespace and the values of the two ownership labels, which    *)
(* are the parent's child namespace, name and namespace; the internal      *)
(* kind is cluster-internal with one port and no annotations, the external *)
(* kind load-balanced with the ports http and https, the raw-TCP           *)
(* annotation and the local external traffic policy.                       *)
OwnerKeys == {OwningContourNameLabel, OwningContourNsLabel}

ParentFree(o) ==
    [o EXCEPT !.namespace = "", !.labels = [k \in DOMAIN o.labels |-> ""]]

ParentPart(b) ==
    /\ b.out.namespace = b.parent.specNs
    /\ DOMAIN b.out.labels = OwnerKeys
    /\ b.out.labels[OwningContourNameLabel] = b.parent.name
    /\ b.out.labels[OwningContourNsLabel] = b.parent.namespace

KindPart(b) ==
    IF b.kind = contourSvcName
    THEN /\ b.out.name = contourSvcName
         /\ b.out.type = "ClusterIP"
         /\ Len(b.out.ports) = 1
         /\ b.out.annotations = NoMap
    ELSE /\ b.out.name = envoySvcName
         /\ b.out.type = "LoadBalancer"
         /\ Len(b.out.ports) = 2
         /\ b.out.ports[1].name = "http" /\ b.out.ports[2].name = "https"
         /\ b.out.annotations = MapOf1(awsLbBackendProtoAnnotation, "tcp")
         /\ b.out.externalTrafficPolicy = "Local"

C12_DesiredPure ==
    /\ \A i \in 1..Len(built) : ParentPart(built[i]) /\ KindPart(built[i])
    /\ Len(built) = 2 /\ built[1].kind = built[2].kind =>
          /\ ParentFree(built[1].out) = ParentFree(built[2].out)
          /\ built[1].parent = built[2].parent => built[1].out = built[2].out

(* Two builds of the external kind for parents that differ in name,        *)
(* namespace and child namespace, with a resource stored in between.       *)
C12_Witness ==
    /\ Len(built) = 2
    /\ built[1].kind = envoySvcName /\ built[2].kind = envoySvcName
    /\ built[1].parent.name # built[2].parent.name
    /\ built[1].parent.namespace # built[2].parent.namespace
    /\ built[1].parent.specNs # built[2].parent.specNs
    /\ built[1].out # built[2].out
    /\ store # NoMap

(* The second of two EnsureExists passes of a parent for the external      *)
(* kind, the first of which created the resource, with no other writer     *)
(* since the first ended.                                                  *)
SecondEnvoyPass(c) ==
    /\ pass[c].op = "ensure"
    /\ pass[c].kind = envoySvcName
    /\ CreatedBefore(c)
    /\ IF Done(c) THEN pass[c].quiet ELSE ~dirty[c]

(* C13 as stated: after one EnsureExists has created the external          *)
(* resource, a second EnsureExists for the same parent and kind with no    *)
(* external change issues no store call at all.                            *)
C13_NoStoreCall ==
    \A c \in Contours : SecondEnvoyPass(c) => Len(pass[c].calls) = 0

(* C13 as amended: ... the second EnsureExists issues exactly one store    *)
(* call, the get, and no create, update or delete; it writes nothing, and  *)
(* when its get succeeds it returns success and leaves the resource as the *)
(* first pass left it.                                                     *)
C13_GetOnly ==
    \A c \in Contours :
        SecondEnvoyPass(c) =>
            /\ Done(c)
            /\ Len(pass[c].calls) = 1
            /\ pass[c].calls[1].op = "get"
            /\ pass[c].wrote = {}
            /\ GetResult(c) = "OK" =>
                  /\ pass[c].ret = Nil
                  /\ pass[c].after = prev[c].after

(* The second, undisturbed EnsureExists pass for the external kind has     *)
(* read the resource the first one created.                                *)
C13_Witness ==
    \E c \in Contours :
        /\ SecondEnvoyPass(c) /\ Done(c)
        /\ GetResult(c) = "OK"
        /\ ownerLabelsExist(pass[c].current, c)

(* The ownership label values an object carries. *)
OwnerLabels(o) ==
    [k \in OwnerKeys \cap DOMAIN o.labels |-> o.labels[k]]

(* C14. Whatever the interleaving with the passes of the other parent of   *)
(* the same child namespace: the stored resource an update of a parent's   *)
(* EnsureExists was applied to carried, at that moment, the ownership      *)
(* labels of that parent and of no other, and the update left the          *)
(* ownership label values of the stored resource as they were.             *)
C14_UpdateOnlyOwn ==
    \A c \in Contours :
        (pass[c].op = "ensure" /\ pass[c].target # Nil) =>
            /\ ownerLabelsExist(pass[c].target, c)
            /\ \A d \in Contours \ {c} : ~ownerLabelsExist(pass[c].target, d)
            /\ pass[c].after # Nil
            /\ OwnerLabels(pass[c].after) = OwnerLabels(pass[c].target)

(* An update was applied after the other parent read the same resource     *)
(* between the get and the update of the pass.                             *)
C14_Witness ==
    \E c \in Contours : \E d \in Contours \ {c} :
        /\ pass[c].op = "ensure" /\ pass[c].target # Nil
        /\ pass[d].op # "none" /\ pass[d].kind = pass[c].kind
        /\ Done(d) /\ pass[d].current = pass[c].current

(* The fields in which an object differs from the desired one. *)
DiffFields(o, d) ==
    { f \in {"ports", "selector", "sessionAffinity", "type",
             "externalTrafficPolicy"} : o[f] # d[f] }
    \cup (IF AnnotationOf(o, awsLbBackendProtoAnnotation)
               # AnnotationOf(d, awsLbBackendProtoAnnotation)
          THEN {"awsAnnotation"} ELSE {})

ManagedFields(kind) ==
    IF kind = contourSvcName
    THEN {"ports", "selector", "sessionAffinity"}
    ELSE {"ports", "selector", "sessionAffinity", "type",
          "externalTrafficPolicy", "awsAnnotation"}

UpdateIssued(c) == pass[c].pc = "update" \/ NumCalls(c, "update") >= 1

(* C15. The managed field subset is per kind: an EnsureExists pass that    *)
(* read an owned resource issues an update exactly when the resource       *)
(* differs from desired in ports, selector or session affinity for the     *)
(* internal kind, and in one of those, the exposure type, the external     *)
(* traffic policy or the cloud annotation for the external kind; it never  *)
(* issues more than one update; and when it issues none it ends with the   *)
(* get only and writes nothing, so the difference stays in place.          *)
C15_ManagedSubset ==
    \A c \in Contours :
        (pass[c].op = "ensure" /\ Found(c) /\ Owned(c)) =>
            LET diff == DiffFields(pass[c].current, Desired(c, pass[c].kind))
                        \cap ManagedFields(pass[c].kind)
            IN  /\ UpdateIssued(c) <=> diff # {}
                /\ Done(c) /\ diff # {} =>
                      /\ NumCalls(c, "update") = 1
                      /\ pass[c].calls[2].arg.resourceVersion
                           = pass[c].current.resourceVersion
                /\ diff = {} =>
                      /\ Done(c) /\ Len(pass[c].calls) = 1
                      /\ pass[c].wrote = {}

(* An owned external resource that differed from desired in the external   *)
(* traffic policy alone has been updated.                                  *)
C15_Witness ==
    \E c \in Contours :
        /\ pass[c].op = "ensure" /\ Done(c) /\ Found(c) /\ Owned(c)
        /\ pass[c].kind = envoySvcName
        /\ DiffFields(pass[c].current, Desired(c, envoySvcName))
             = {"externalTrafficPolicy"}
        /\ NumCalls(c, "update") = 1
        /\ pass[c].calls[2].res = "OK"
        /\ pass[c].after.externalTrafficPolicy = "Local"

(* C16. Call ordering within a pass: every EnsureExists or EnsureDeleted   *)
(* pass issues the get first and at most one more store call, a create,    *)
(* update or delete, after which it has ended; a pass that has not ended   *)
(* has its one mutating call left to issue and can issue it; and a pass    *)
(* that issues or is about to issue an update or a delete has read an      *)
(* object with its get and found it owned by its parent, and issues the    *)
(* call on that object.                                                    *)
Mutating == {"create", "update", "delete"}

OrderedCalls(c) ==
    LET calls == pass[c].calls
    IN  /\ Len(calls) \in {1, 2}
        /\ calls[1].op = "get"
        /\ Len(calls) = 2 => calls[2].op \in Mutating /\ Done(c)
        /\ ~Done(c) =>
              /\ Len(calls) = 1
              /\ pass[c].pc \in Mutating
              /\ ENABLED (createService(c) \/ updateService(c)
                             \/ deleteService(c))
        /\ \A i \in 1..Len(calls) :
              calls[i].op \in {"update", "delete"} =>
                 /\ calls[i].arg.namespace = pass[c].current.namespace
                 /\ calls[i].arg.name = pass[c].current.name
                 /\ calls[i].arg.resourceVersion
                      = pass[c].current.resourceVersion
        /\ (pass[c].pc \in {"update", "delete"}
              \/ \E i \in 1..Len(calls) : calls[i].op \in {"update", "delete"})
             => /\ calls[1].res = "OK"
                /\ Found(c)
                /\ Owned(c)

C16_CallOrder == \A c \in Contours : pass[c].op # "none" => OrderedCalls(c)

(* An EnsureDeleted pass has ended after its get and its delete, and an    *)
(* EnsureExists pass of the other parent after its get and its create.     *)
C16_Witness ==
    \E c \in Contours : \E d \in Contours \ {c} :
        /\ pass[c].op = "delete" /\ Done(c)
        /\ Len(pass[c].calls) = 2 /\ pass[c].calls[2].op = "delete"
        /\ pass[d].op = "ensure" /\ Done(d)
        /\ Len(pass[d].calls) = 2 /\ pass[d].calls[2].op = "create"

(* The states of the resource of a kind, as the single parent sees them. *)
Present(kind) == KeyOf(Parent, kind) \in DOMAIN store

PresentOwned(kind) ==
    Present(kind) /\ ownerLabelsExist(store[KeyOf(Parent, kind)], Parent)

PresentUnowned(kind) ==
    Present(kind) /\ ~ownerLabelsExist(store[KeyOf(Parent, kind)], Parent)

Converged(kind) ==
    /\ PresentOwned(kind)
    /\ DiffFields(store[KeyOf(Parent, kind)], Desired(Parent, kind))
         \cap ManagedFields(kind) = {}

KeepsResource(kind) ==
    StoredAt(store', KeyOf(Parent, kind)) = StoredAt(store, KeyOf(Parent, kind))

NoMutatingCallAhead(kind) ==
    pass'[Parent].kind = kind => pass'[Parent].pc \notin Mutating

(* C17. Convergence by re-invocation: for a single parent with no other    *)
(* writer, a control loop that keeps re-invoking EnsureExists and a store  *)
(* whose failures stop, from Absent or Present-Owned the resource of each  *)
(* kind eventually exists, is owned by the parent and has every managed    *)
(* field equal to desired; from then on no pass issues a mutating call and *)
(* the resource stays as it is; and from Present-Unowned the resource      *)
(* never changes.                                                          *)
C17_Convergence ==
    /\ \A kind \in Kinds :
          (~Present(kind) \/ PresentOwned(kind)) ~> Converged(kind)
    /\ [][\A kind \in Kinds :
             Converged(kind) =>
                 /\ Converged(kind)'
                 /\ KeepsResource(kind)
                 /\ NoMutatingCallAhead(kind)]_vars
    /\ [][\A kind \in Kinds :
             PresentUnowned(kind) =>
                 /\ PresentUnowned(kind)'
                 /\ KeepsResource(kind)
                 /\ NoMutatingCallAhead(kind)]_vars

(* The external resource, which was owned and differed from desired, has   *)
(* converged by an update after the store had failed MaxFaults times.      *)
C17_Witness ==
    /\ Converged(envoySvcName)
    /\ sched.faults = MaxFaults
    /\ pass[Parent].op = "ensure" /\ pass[Parent].kind = envoySvcName
    /\ Done(Parent) /\ NumCalls(Parent, "update") = 1
    /\ pass[Parent].calls[2].res = "OK"
    /\ prev[Parent].op = "ensure"

(* The pass of parent c lost a create race. *)
Lost(c) ==
    /\ Len(pass[c].calls) = 2
    /\ pass[c].calls[2].op = "create"
    /\ pass[c].calls[2].res = "AlreadyExists"

LostBefore(c) ==
    /\ prev[c].op = "ensure"
    /\ prev[c].kind = pass[c].kind
    /\ prev[c].results = <<"NotFound", "AlreadyExists">>

OwnedByOther(o, c) ==
    /\ ~ownerLabelsExist(o, c)
    /\ \E d \in Contours \ {c} : ownerLabelsExist(o, d)

RacePass(c) ==
    LET key == KeyOf(c, pass[c].kind)
    IN  /\ Lost(c) =>
              /\ pass[c].calls[1].res = "NotFound"
              /\ pass[c].ret # Nil
              /\ pass[c].ret.cause = "AlreadyExists"
              /\ pass[c].ret.wraps[1].op = "create"
              /\ pass[c].wrote = {}
              /\ key \in DOMAIN store
              /\ pass[c].after = store[key]
              /\ OwnedByOther(store[key], c)
        /\ (LostBefore(c) \/ (Found(c) /\ ~Owned(c))) =>
              /\ Done(c)
              /\ Len(pass[c].calls) = 1
              /\ pass[c].calls[1].res \in {"OK", "Internal"}
              /\ pass[c].wrote = {}
              /\ pass[c].calls[1].res = "OK" =>
                    /\ pass[c].ret = Nil
                    /\ OwnedByOther(pass[c].current, c)
                    /\ pass[c].current = store[key]

RaceStep(key) ==
    /\ key \in DOMAIN store =>
          key \in DOMAIN store' /\ store'[key] = store[key]
    /\ (key \notin DOMAIN store /\ key \in DOMAIN store') =>
          \E c \in Contours :
              /\ pass[c].pc = "create"
              /\ Len(pass'[c].calls) = 2
              /\ pass'[c].calls[2].res = "OK"
              /\ pass'[c].calls[2].key = key
              /\ pass'[c].calls[1].res = "NotFound"
              /\ ownerLabelsExist(store'[key], c)
              /\ \A d \in Contours \ {c} : ~ownerLabelsExist(store'[key], d)

(* C18. Create race between parents: with EnsureExists passes of the two   *)
(* parents of one child namespace interleaving, a create succeeds only     *)
(* while no resource of the kind is stored, so at most one of the creates  *)
(* that followed a NotFound succeeds; the stored resource carries the      *)
(* ownership labels of the parent whose create succeeded and is never      *)
(* changed afterwards; the pass whose create met the existing resource     *)
(* returns the already-exists error, wrapped, having written nothing; and  *)
(* every later EnsureExists of that parent reads the winner's resource and *)
(* is a skip: the get only, nothing written, success returned.             *)
C18_CreateRace ==
    /\ [](\A c \in Contours : pass[c].op = "ensure" => RacePass(c))
    /\ [][\A key \in Keys : RaceStep(key)]_vars

(* Both parents observed NotFound, one created the resource, the other     *)
(* lost the race and has since run two more EnsureExists passes.           *)
C18_Witness ==
    \E c \in Contours : \E d \in Contours \ {c} :
        /\ pass[c].op = "ensure" /\ Done(c) /\ Found(c)
        /\ prev[c].op = "ensure" /\ prev[c].kind = pass[c].kind
        /\ prev[c].results = <<"OK">>
        /\ pass[d].op = "ensure" /\ pass[d].kind = pass[c].kind
        /\ pass[d].calls[1].res = "NotFound"
        /\ Len(pass[d].calls) = 2 /\ pass[d].calls[2].res = "OK"
        /\ started = MaxRacePasses
        /\ ownerLabelsExist(store[KeyOf(c, pass[c].kind)], d)

(* The only key a pass of parent c in state p may touch. *)
FrameKey(c, p) == <<c.specNs, p.kind>>

InFrame(c) ==
    LET p == pass[c]
    IN  /\ p.kind \in {contourSvcName, envoySvcName}
        /\ \A i \in 1..Len(p.calls) :
              /\ p.calls[i].key = FrameKey(c, p)
              /\ p.calls[i].arg # Nil => ObjKey(p.calls[i].arg) = FrameKey(c, p)
        /\ p.current # Nil => ObjKey(p.current) = FrameKey(c, p)
        /\ p.svc # Nil => ObjKey(p.svc) = FrameKey(c, p)
        /\ p.wrote \subseteq {FrameKey(c, p)}
        /\ p.op = "ensure" =>
              /\ p.pc # "delete"
              /\ NumCalls(c, "delete") = 0
        /\ p.op = "delete" =>
              /\ p.pc \notin {"create", "update"}
              /\ NumCalls(c, "create") = 0
              /\ NumCalls(c, "update") = 0

KeepsOutOfFrame(c) ==
    pass'[c] # pass[c] =>
        \A k \in ((DOMAIN store) \cup (DOMAIN store')) \ {FrameKey(c, pass'[c])} :
            StoredAt(store', k) = StoredAt(store, k)

(* C19. Frame of a pass: every store call of a pass, and every object it   *)
(* reads or sends, is for the resource with the fixed name of the pass's   *)
(* kind in the parent's selected child namespace; no step of a pass        *)
(* changes the resource of the other kind or a resource of another         *)
(* namespace; an EnsureExists pass issues no delete and an EnsureDeleted   *)
(* pass no create and no update.                                           *)
C19_Frame ==
    /\ [](\A c \in Contours : pass[c].op # "none" => InFrame(c))
    /\ [][\A c \in Contours : KeepsOutOfFrame(c)]_vars

(* A pass has deleted its resource while the resource of the other kind    *)
(* and the resources of the other namespace are stored, unchanged.         *)
C19_Witness ==
    \E c \in Contours :
        /\ pass[c].op = "delete" /\ Done(c)
        /\ pass[c].wrote = {FrameKey(c, pass[c])}
        /\ FrameKey(c, pass[c]) \notin DOMAIN store
        /\ \E k \in Keys : k \in DOMAIN store /\ ownerLabelsExist(store[k], c)
        /\ \A k \in OtherKeys :
              k \in DOMAIN store /\ store[k].resourceVersion = 1

====
